---------------------------- MODULE Spec2Model ----------------------------
(***************************************************************************)
(* Planet Zero monthly simulator (src/src/pz_model.py) and the trajectory  *)
(* re-implementations that the sweep scripts and the dashboard pair with   *)
(* it.                                                                     *)
(*                                                                         *)
(* Number representation.  Every Python float is held in fixed point as an *)
(* integer count of hundredths (Unit = 1.00): 0.05 is 5, 3.0 is 300,       *)
(* 1000.0 is 100000.  A product of two floats is Mul, a quotient is Div;   *)
(* both round toward minus infinity.  Python ints (months, t, employees,   *)
(* hires, the phase id, the survival ratio 3/6/12) stay plain integers.    *)
(* float("inf") is the value Inf, larger than every finite value, and is   *)
(* absorbing under subtraction and division as in IEEE arithmetic.         *)
(* float("nan") and None are the empty tuple; a present value v is <<v>>.  *)
(***************************************************************************)
EXTENDS Integers, Sequences, FiniteSets, TLC

\* ------------------------------------------------------------------ bounds
MaxMonths == 4

\* ------------------------------------------------------- number encoding
Unit == 100

Inf == 2147483647

NaN == << >>

Max(a, b) == IF a >= b THEN a ELSE b

Min(a, b) == IF a <= b THEN a ELSE b

Mul(x, y) == (x * y) \div Unit

Div(x, y) == IF x = Inf THEN Inf ELSE (x * Unit) \div y

Sub(x, y) == IF x = Inf THEN Inf ELSE x - y

\* ------------------------------------------------------ pz_model helpers
r_monthly(r_annual) == r_annual \div 12

fs_ratio_for_employees(n) ==
    IF n <= 2 THEN 3
    ELSE IF n <= 6 THEN 6
    ELSE 12

clamp(x, lo, hi) == Max(lo, Min(hi, x))

\* variant: each phase starts where the previous one ended
p_bounds_by_fs_joined(cov, p4_max) ==
    LET raw ==
            IF cov < 300 THEN
                [pmin |-> 5, pmax |-> 15, lam |-> Div(cov, 300), phase |-> 1]
            ELSE IF cov < 600 THEN
                [pmin |-> 15, pmax |-> 35, lam |-> Div(Sub(cov, 300), 300), phase |-> 2]
            ELSE IF cov < 1200 THEN
                [pmin |-> 35, pmax |-> 50, lam |-> Div(Sub(cov, 600), 600), phase |-> 3]
            ELSE
                [pmin |-> 50, pmax |-> p4_max, lam |-> Div(Sub(cov, 1200), 1200), phase |-> 4]
    IN  [raw EXCEPT !.lam = clamp(raw.lam, 0, Unit)]

\* variant: the cap is applied one phase early, as the top of Phase 3
p_bounds_by_fs_cap_in_phase3(cov, p4_max) ==
    LET raw ==
            IF cov < 300 THEN
                [pmin |-> 5, pmax |-> 15, lam |-> Div(cov, 300), phase |-> 1]
            ELSE IF cov < 600 THEN
                [pmin |-> 20, pmax |-> 35, lam |-> Div(Sub(cov, 300), 300), phase |-> 2]
            ELSE IF cov < 1200 THEN
                [pmin |-> 30, pmax |-> p4_max, lam |-> Div(Sub(cov, 600), 600), phase |-> 3]
            ELSE
                [pmin |-> 40, pmax |-> p4_max, lam |-> Div(Sub(cov, 1200), 1200), phase |-> 4]
    IN  [raw EXCEPT !.lam = clamp(raw.lam, 0, Unit)]

p_bounds_by_fs(cov, p4_max) ==
    LET raw ==
            IF cov < 300 THEN
                [pmin |-> 5, pmax |-> 15, lam |-> Div(cov, 300), phase |-> 1]
            ELSE IF cov < 600 THEN
                [pmin |-> 20, pmax |-> 35, lam |-> Div(Sub(cov, 300), 300), phase |-> 2]
            ELSE IF cov < 1200 THEN
                [pmin |-> 30, pmax |-> 50, lam |-> Div(Sub(cov, 600), 600), phase |-> 3]
            ELSE
                [pmin |-> 40, pmax |-> p4_max, lam |-> Div(Sub(cov, 1200), 1200), phase |-> 4]
    IN  [raw EXCEPT !.lam = clamp(raw.lam, 0, Unit)]

p_dynamic_from_fs(cov, p4_max) ==
    LET b == p_bounds_by_fs(cov, p4_max)
    IN  b.pmin + Mul(b.lam, b.pmax - b.pmin)

\* variant: a non-positive cost base reports coverage 0.0 instead of +inf
coverage_zero(fs, c) == IF c > 0 THEN Div(fs, c) ELSE 0

\* coverage FS / costs with the explicit +inf branch (pz_model.py:193, 262)
coverage(fs, c) == IF c > 0 THEN Div(fs, c) ELSE Inf

\* variant: the dynamic policy is consulted before the override
effective_p_dynamic_first(p, cov, fixed) ==
    LET chosen ==
            IF p.use_dynamic_p THEN p_dynamic_from_fs(cov, p.p4_max)
            ELSE IF 0 <= p.p_override /\ p.p_override <= Unit THEN p.p_override
            ELSE fixed
    IN  clamp(chosen, 0, Unit)

\* variant: the endpoints 0 and 1 are not accepted as an override
effective_p_open_interval(p, cov, fixed) ==
    LET chosen ==
            IF 0 < p.p_override /\ p.p_override < Unit THEN p.p_override
            ELSE IF p.use_dynamic_p THEN p_dynamic_from_fs(cov, p.p4_max)
            ELSE fixed
    IN  clamp(chosen, 0, Unit)

\* effective p (override > dynamic > fixed), then clamped
effective_p(p, cov, fixed) ==
    LET chosen ==
            IF 0 <= p.p_override /\ p.p_override <= Unit THEN p.p_override
            ELSE IF p.use_dynamic_p THEN p_dynamic_from_fs(cov, p.p4_max)
            ELSE fixed
    IN  clamp(chosen, 0, Unit)

\* -------------------------------------------------------------- the state
VARIABLES
    months, p_to_bc, params, B0, FS0,      \* arguments of simulate_pz
    pc,                                    \* "loop", "done" or "error"
    t, A, m, employees, BC, FS,            \* loop counter and states
    impact_cum, months_u_pos, first_impact_month, u_sum,
    hires, last_hire_month, last_p_eff, last_phase,
    costs, U, fs_cov, impact, internal,    \* locals of the last iteration
    summary,                               \* the returned dict
    pol_pc, fs_cov_arg, p4_max_arg,        \* a direct call of the policy engine
    bounds_ret, p_dyn_ret,
    caller, A0_arg, m0_arg,                \* a trajectory run and who asked for it
    tr_pc, tr, traj, crossings,
    p1_pc, phase1_args,                    \* a call of simulate_phase1
    p1_t, bond_capital, p1_impact_cum, months_positive_u,
    p1_first_impact_month, p1_u_sum, u_positive_sum,
    p1_u, reinvest, p1_impact,             \* locals of its last iteration
    phase1_ret                             \* the dict it returns

argvars == <<months, p_to_bc, params, B0, FS0>>

simvars == <<t, A, m, employees, BC, FS, impact_cum, months_u_pos,
             first_impact_month, u_sum, hires, last_hire_month,
             last_p_eff, last_phase, costs, U, fs_cov, impact, internal>>

polvars == <<pol_pc, fs_cov_arg, p4_max_arg, bounds_ret, p_dyn_ret>>

trajvars == <<caller, A0_arg, m0_arg, tr_pc, tr, traj, crossings>>

p1vars == <<p1_pc, phase1_args, p1_t, bond_capital, p1_impact_cum,
            months_positive_u, p1_first_impact_month, p1_u_sum, u_positive_sum,
            p1_u, reinvest, p1_impact, phase1_ret>>

\* everything that a run of simulate_pz does not touch
restvars == <<polvars, trajvars, p1vars>>

vars == <<argvars, pc, simvars, summary, restvars>>

\* ----------------------------------------------------------- input space
\* r_annual: the default 0.04 (a monthly rate below 0.01, held as 0.00) and
\* 0.24 (a monthly rate of 0.02)
FinanceSpace == { [r_annual |-> 4], [r_annual |-> 24] }

\* starting population and margin: revenue 2500.00 or 250.00 in month 1
StartSpace == { [A0 |-> 10000, m0 |-> 2500], [A0 |-> 1000, m0 |-> 2500] }

\* monthly costs at start: 2000.00, 700.00 (seven employees), 0.00 and -1.00
CostSpace ==
    { [employees0 |-> 2, cost_per_employee |-> 100000, other_fixed_costs |-> 0],
      [employees0 |-> 7, cost_per_employee |-> 10000, other_fixed_costs |-> 0],
      [employees0 |-> 0, cost_per_employee |-> 100000, other_fixed_costs |-> 0],
      [employees0 |-> 0, cost_per_employee |-> 100000, other_fixed_costs |-> -100] }

\* default allocation ratios, impact and internal shares that do not sum to
\* 1, and a survival-fund share outside [0,1]
AllocSpace ==
    { [fs_pct_of_bpz |-> 30, impact_pct_of_bpz_rem |-> 60,
       internal_pct_of_bpz_rem |-> 40, rd_pct_of_internal |-> 60],
      [fs_pct_of_bpz |-> 30, impact_pct_of_bpz_rem |-> 60,
       internal_pct_of_bpz_rem |-> 60, rd_pct_of_internal |-> 60],
      [fs_pct_of_bpz |-> 150, impact_pct_of_bpz_rem |-> 60,
       internal_pct_of_bpz_rem |-> 40, rd_pct_of_internal |-> 60] }

\* growth feedback: near the defaults, and a churn that empties the population
GrowthSpace ==
    { [churn_rate |-> 3, acq_churn_ratio |-> 100, k_acq |-> 20,
       km_margin |-> 10, krd_margin |-> 1, max_margin_growth |-> 3],
      [churn_rate |-> 150, acq_churn_ratio |-> 0, k_acq |-> 0,
       km_margin |-> 100, krd_margin |-> 0, max_margin_growth |-> 3] }

HiringSpace ==
    { [hire_cooldown_months |-> 1, hire_trigger_buffer |-> 120],
      [hire_cooldown_months |-> 3, hire_trigger_buffer |-> 120] }

\* the sentinel -1.0, the endpoints 0 and 1, and 1.5 (neither sentinel nor valid)
OverrideVals == { -100, 0, 100, 150 }

P4MaxVals == { 20, 70 }

GovSpace ==
    { [use_dynamic_p |-> d, p_override |-> o, p4_max |-> c, rev_growth |-> 0] :
        d \in BOOLEAN, o \in OverrideVals, c \in P4MaxVals }

ParamSpace ==
    { f @@ s @@ c @@ a @@ g @@ h @@ v :
        f \in FinanceSpace, s \in StartSpace, c \in CostSpace, a \in AllocSpace,
        g \in GrowthSpace, h \in HiringSpace, v \in GovSpace }

PToBcVals == { 30, 150 }

BalanceSpace == { [B0 |-> 0, FS0 |-> 0], [B0 |-> 0, FS0 |-> 3000000] }

\* variant: the last share and phase start at 0.0 instead of nan
SimStart_zero_stats(p, b0, fs0) ==
    /\ t = 0
    /\ A = p.A0
    /\ m = p.m0
    /\ employees = p.employees0
    /\ BC = b0
    /\ FS = fs0
    /\ impact_cum = 0
    /\ months_u_pos = 0
    /\ first_impact_month = << >>
    /\ u_sum = 0
    /\ hires = 0
    /\ last_hire_month = -10000
    /\ last_p_eff = <<0>>
    /\ last_phase = <<0>>
    /\ costs = 0
    /\ U = 0
    /\ fs_cov = 0
    /\ impact = 0
    /\ internal = 0

\* --------------------------------------------------- simulate_pz: set-up
\* pz_model.py:158-179: the state after the assignments that precede the loop
SimStart(p, b0, fs0) ==
    /\ t = 0
    /\ A = p.A0
    /\ m = p.m0
    /\ employees = p.employees0
    /\ BC = b0
    /\ FS = fs0
    /\ impact_cum = 0
    /\ months_u_pos = 0
    /\ first_impact_month = << >>
    /\ u_sum = 0
    /\ hires = 0
    /\ last_hire_month = -10000
    /\ last_p_eff = NaN
    /\ last_phase = NaN
    /\ costs = 0
    /\ U = 0
    /\ fs_cov = 0
    /\ impact = 0
    /\ internal = 0

\* the state of simulate_phase1 after the assignments that precede its loop
\* (common.py:51-60)
Phase1Start(b0) ==
    /\ p1_t = 0
    /\ bond_capital = b0
    /\ p1_impact_cum = 0
    /\ months_positive_u = 0
    /\ p1_first_impact_month = << >>
    /\ p1_u_sum = 0
    /\ u_positive_sum = 0
    /\ p1_u = 0
    /\ reinvest = 0
    /\ p1_impact = 0

\* no call of simulate_phase1 is in progress
Phase1Idle ==
    /\ p1_pc = "idle"
    /\ phase1_args = << >>
    /\ Phase1Start(0)
    /\ phase1_ret = << >>

\* no direct policy call is in progress
PolicyIdle ==
    /\ pol_pc = "idle"
    /\ fs_cov_arg = 0
    /\ p4_max_arg = 0
    /\ bounds_ret = << >>
    /\ p_dyn_ret = << >>

\* the loop state of run_path_until before its first iteration
\* (phase2_viability_grid.py:30-41, phase2_dashboard.py:30-41)
TrajStart(a0, m0, bc0, fs0, e0) ==
    [t |-> 0, A |-> a0, m |-> m0, employees |-> e0, BC |-> bc0, FS |-> fs0,
     hires |-> 0, last_hire_month |-> -10000]

\* no trajectory is being built
TrajIdle ==
    /\ caller = "direct"
    /\ A0_arg = 0
    /\ m0_arg = 0
    /\ tr_pc = "idle"
    /\ tr = TrajStart(0, 0, 0, 0, 0)
    /\ traj = << >>
    /\ crossings = << >>

Init ==
    /\ months \in 0..MaxMonths
    /\ p_to_bc \in PToBcVals
    /\ params \in ParamSpace
    /\ \E b \in BalanceSpace : B0 = b.B0 /\ FS0 = b.FS0
    /\ pc = "loop"
    /\ SimStart(params, B0, FS0)
    /\ summary = << >>
    /\ PolicyIdle
    /\ TrajIdle
    /\ Phase1Idle

\* --------------------------------------------- simulate_pz: one iteration
\* pz_model.py:182-186
month_costs == employees * params.cost_per_employee + params.other_fixed_costs

month_U ==
    LET revenue  == Mul(A, m)
        interest == Mul(r_monthly(params.r_annual), BC + FS)
    IN  revenue + interest - month_costs

\* variant: the coverage is taken after a provisional buffer inflow and on
\* the costs of one more employee
month_split_after_inflow ==
    LET cov      == coverage(FS + Mul(params.fs_pct_of_bpz, month_U),
                             month_costs + params.cost_per_employee)
        p_eff    == effective_p(params, cov, p_to_bc)
        BC_in    == Mul(p_eff, month_U)
        BPZ_in   == Mul(Unit - p_eff, month_U)
        FS_in    == Mul(params.fs_pct_of_bpz, BPZ_in)
        BPZ_rem  == Mul(Unit - params.fs_pct_of_bpz, BPZ_in)
        imp      == Mul(params.impact_pct_of_bpz_rem, BPZ_rem)
        intern   == Mul(params.internal_pct_of_bpz_rem, BPZ_rem)
    IN  [fs_cov |-> cov, p_eff |-> p_eff,
         phase_id |-> p_bounds_by_fs(cov, params.p4_max).phase,
         BC_in |-> BC_in, FS_in |-> FS_in, impact |-> imp,
         internal |-> intern,
         rd |-> Mul(params.rd_pct_of_internal, intern)]

\* variant: the buffer's share is taken from U instead of the community pool
month_split_buffer_from_U ==
    LET cov      == coverage(FS, month_costs)
        p_eff    == effective_p(params, cov, p_to_bc)
        BC_in    == Mul(p_eff, month_U)
        BPZ_in   == Mul(Unit - p_eff, month_U)
        FS_in    == Mul(params.fs_pct_of_bpz, month_U)
        BPZ_rem  == Mul(Unit - params.fs_pct_of_bpz, BPZ_in)
        imp      == Mul(params.impact_pct_of_bpz_rem, BPZ_rem)
        intern   == Mul(params.internal_pct_of_bpz_rem, BPZ_rem)
    IN  [fs_cov |-> cov, p_eff |-> p_eff,
         phase_id |-> p_bounds_by_fs(cov, params.p4_max).phase,
         BC_in |-> BC_in, FS_in |-> FS_in, impact |-> imp,
         internal |-> intern,
         rd |-> Mul(params.rd_pct_of_internal, intern)]

\* pz_model.py:193-224: governance and the split of a positive U
month_split ==
    LET cov      == coverage(FS, month_costs)
        p_eff    == effective_p(params, cov, p_to_bc)
        BC_in    == Mul(p_eff, month_U)
        BPZ_in   == Mul(Unit - p_eff, month_U)
        FS_in    == Mul(params.fs_pct_of_bpz, BPZ_in)
        BPZ_rem  == Mul(Unit - params.fs_pct_of_bpz, BPZ_in)
        imp      == Mul(params.impact_pct_of_bpz_rem, BPZ_rem)
        intern   == Mul(params.internal_pct_of_bpz_rem, BPZ_rem)
    IN  [fs_cov |-> cov, p_eff |-> p_eff,
         phase_id |-> p_bounds_by_fs(cov, params.p4_max).phase,
         BC_in |-> BC_in, FS_in |-> FS_in, impact |-> imp,
         internal |-> intern,
         rd |-> Mul(params.rd_pct_of_internal, intern)]

\* variant: the population is not clamped at zero
month_growth_unclamped(s) ==
    LET intensity_den == month_costs + Unit
        churn         == Mul(params.churn_rate, A)
        acq_baseline  == Mul(params.acq_churn_ratio, churn)
        acq_boost     == Mul(params.k_acq, Div(s.impact, intensity_den))
        acquisitions  == acq_baseline + acq_boost
        g_raw         == Mul(params.km_margin, Div(s.impact, intensity_den))
                         + Mul(params.krd_margin, Div(s.rd, intensity_den))
        g_m           == Min(params.max_margin_growth, Max(0, g_raw))
    IN  [A |-> A + acquisitions - churn,
         m |-> Mul(m, Unit + g_m)]

\* variant: the margin growth is not capped at max_margin_growth
month_growth_uncapped(s) ==
    LET intensity_den == month_costs + Unit
        churn         == Mul(params.churn_rate, A)
        acq_baseline  == Mul(params.acq_churn_ratio, churn)
        acq_boost     == Mul(params.k_acq, Div(s.impact, intensity_den))
        acquisitions  == acq_baseline + acq_boost
        g_raw         == Mul(params.km_margin, Div(s.impact, intensity_den))
                         + Mul(params.krd_margin, Div(s.rd, intensity_den))
        g_m           == Max(0, g_raw)
    IN  [A |-> Max(0, A + acquisitions - churn),
         m |-> Mul(m, Unit + g_m)]

\* pz_model.py:232-243: growth of population and margin
month_growth(s) ==
    LET intensity_den == month_costs + Unit
        churn         == Mul(params.churn_rate, A)
        acq_baseline  == Mul(params.acq_churn_ratio, churn)
        acq_boost     == Mul(params.k_acq, Div(s.impact, intensity_den))
        acquisitions  == acq_baseline + acq_boost
        g_raw         == Mul(params.km_margin, Div(s.impact, intensity_den))
                         + Mul(params.krd_margin, Div(s.rd, intensity_den))
        g_m           == Min(params.max_margin_growth, Max(0, g_raw))
    IN  [A |-> Max(0, A + acquisitions - churn),
         m |-> Mul(m, Unit + g_m)]

\* variant: the cooldown is not consulted
month_hire_no_cooldown(s) ==
    LET fs_ratio  == fs_ratio_for_employees(employees)
        fs_target == fs_ratio * month_costs
    IN  FS + s.FS_in >= Mul(params.hire_trigger_buffer, fs_target)

\* pz_model.py:246-250: hiring decision on the post-allocation FS
month_hire(s) ==
    LET fs_ratio  == fs_ratio_for_employees(employees)
        fs_target == fs_ratio * month_costs
    IN  /\ ((t + 1) - last_hire_month) >= params.hire_cooldown_months
        /\ FS + s.FS_in >= Mul(params.hire_trigger_buffer, fs_target)

\* pz_model.py:187-229: what every month with U > 0 does before the growth step
AllocateEffects(s) ==
    /\ t' = t + 1
    /\ costs' = month_costs
    /\ U' = month_U
    /\ u_sum' = u_sum + month_U
    /\ months_u_pos' = months_u_pos + 1
    /\ fs_cov' = s.fs_cov
    /\ last_p_eff' = <<s.p_eff>>
    /\ last_phase' = <<s.phase_id>>
    /\ BC' = BC + s.BC_in
    /\ FS' = FS + s.FS_in
    /\ impact' = s.impact
    /\ internal' = s.internal
    /\ impact_cum' = impact_cum + s.impact
    /\ first_impact_month' =
           IF first_impact_month = << >> /\ s.impact > 0
           THEN <<t + 1>> ELSE first_impact_month

\* variant: the last month of the horizon makes no hiring decision
MonthAllocate_last_month_no_hire ==
    /\ pc = "loop"
    /\ t < months
    /\ month_U > 0
    /\ month_costs + Unit # 0
    /\ LET s == month_split
           g == month_growth(s)
       IN  /\ AllocateEffects(s)
           /\ A' = g.A
           /\ m' = g.m
           /\ IF month_hire(s) /\ t + 1 < months
              THEN /\ employees' = employees + 1
                   /\ hires' = hires + 1
                   /\ last_hire_month' = t + 1
              ELSE UNCHANGED <<employees, hires, last_hire_month>>
    /\ UNCHANGED <<argvars, pc, summary, restvars>>

\* a month with U > 0 (pz_model.py:189-253)
MonthAllocate ==
    /\ pc = "loop"
    /\ t < months
    /\ month_U > 0
    /\ month_costs + Unit # 0
    /\ LET s == month_split
           g == month_growth(s)
       IN  /\ AllocateEffects(s)
           /\ A' = g.A
           /\ m' = g.m
           /\ IF month_hire(s)
              THEN /\ employees' = employees + 1
                   /\ hires' = hires + 1
                   /\ last_hire_month' = t + 1
              ELSE UNCHANGED <<employees, hires, last_hire_month>>
    /\ UNCHANGED <<argvars, pc, summary, restvars>>

\* a month with U > 0 whose intensity denominator costs + 1.0 is zero:
\* impact / intensity_den raises ZeroDivisionError (pz_model.py:232-236)
MonthDivByZero ==
    /\ pc = "loop"
    /\ t < months
    /\ month_U > 0
    /\ month_costs + Unit = 0
    /\ AllocateEffects(month_split)
    /\ pc' = "error"
    /\ UNCHANGED <<argvars, A, m, employees, hires, last_hire_month, summary, restvars>>

\* variant: a loss month is paid out of the survival fund
MonthFreeze_drawdown ==
    /\ pc = "loop"
    /\ t < months
    /\ month_U <= 0
    /\ t' = t + 1
    /\ costs' = month_costs
    /\ U' = month_U
    /\ u_sum' = u_sum + month_U
    /\ FS' = FS + month_U
    /\ UNCHANGED <<argvars, pc, A, m, employees, BC, impact_cum,
                   months_u_pos, first_impact_month, hires, last_hire_month,
                   last_p_eff, last_phase, fs_cov, impact, internal, summary,
                   restvars>>

\* variant: a loss month also records the share and phase it would have used
MonthFreeze_records_share ==
    /\ pc = "loop"
    /\ t < months
    /\ month_U <= 0
    /\ t' = t + 1
    /\ costs' = month_costs
    /\ U' = month_U
    /\ u_sum' = u_sum + month_U
    /\ last_p_eff' = <<month_split.p_eff>>
    /\ last_phase' = <<month_split.phase_id>>
    /\ UNCHANGED <<argvars, pc, A, m, employees, BC, FS, impact_cum,
                   months_u_pos, first_impact_month, hires, last_hire_month,
                   fs_cov, impact, internal, summary, restvars>>

\* variant: the interest of a loss month is credited to the balances
MonthFreeze_credits_interest ==
    /\ pc = "loop"
    /\ t < months
    /\ month_U <= 0
    /\ t' = t + 1
    /\ costs' = month_costs
    /\ U' = month_U
    /\ u_sum' = u_sum + month_U
    /\ BC' = BC + Mul(r_monthly(params.r_annual), BC)
    /\ FS' = FS + Mul(r_monthly(params.r_annual), FS)
    /\ UNCHANGED <<argvars, pc, A, m, employees, impact_cum,
                   months_u_pos, first_impact_month, hires, last_hire_month,
                   last_p_eff, last_phase, fs_cov, impact, internal, summary,
                   restvars>>

\* a month with U <= 0: conservative freeze (pz_model.py:182-189, 254)
MonthFreeze ==
    /\ pc = "loop"
    /\ t < months
    /\ month_U <= 0
    /\ t' = t + 1
    /\ costs' = month_costs
    /\ U' = month_U
    /\ u_sum' = u_sum + month_U
    /\ UNCHANGED <<argvars, pc, A, m, employees, BC, FS, impact_cum,
                   months_u_pos, first_impact_month, hires, last_hire_month,
                   last_p_eff, last_phase, fs_cov, impact, internal, summary,
                   restvars>>

\* variant: hires_total reports the head count instead of the hires made
summary_of_head_count ==
    LET final_costs   == employees * params.cost_per_employee + params.other_fixed_costs
        fs_ratio_final == fs_ratio_for_employees(employees)
        fs_cov_final  == coverage(FS, final_costs)
        b             == p_bounds_by_fs(fs_cov_final, params.p4_max)
    IN  [months |-> months,
         p_to_bc_input |-> p_to_bc,
         p_eff_last |-> last_p_eff,
         phase_last |-> last_phase,
         impact_cum_end |-> impact_cum,
         BC_end |-> BC,
         FS_end |-> FS,
         employees_end |-> employees,
         hires_total |-> employees,
         A_end |-> A,
         m_end |-> m,
         avg_U |-> IF months > 0 THEN u_sum \div months ELSE 0,
         pct_months_U_pos |->
             IF months > 0 THEN (months_u_pos * Unit) \div months ELSE 0,
         first_impact_month |-> first_impact_month,
         fs_ratio_final |-> fs_ratio_final,
         fs_target_final |-> fs_ratio_final * final_costs,
         fs_coverage_months_final |-> fs_cov_final,
         p_range_min_final |-> b.pmin,
         p_range_max_final |-> b.pmax,
         p_dyn_final |-> p_dynamic_from_fs(fs_cov_final, params.p4_max),
         phase_final |-> b.phase,
         lambda_in_phase_final |-> b.lam]

\* pz_model.py:256-296: the summary dict
summary_of ==
    LET final_costs   == employees * params.cost_per_employee + params.other_fixed_costs
        fs_ratio_final == fs_ratio_for_employees(employees)
        fs_cov_final  == coverage(FS, final_costs)
        b             == p_bounds_by_fs(fs_cov_final, params.p4_max)
    IN  [months |-> months,
         p_to_bc_input |-> p_to_bc,
         p_eff_last |-> last_p_eff,
         phase_last |-> last_phase,
         impact_cum_end |-> impact_cum,
         BC_end |-> BC,
         FS_end |-> FS,
         employees_end |-> employees,
         hires_total |-> hires,
         A_end |-> A,
         m_end |-> m,
         avg_U |-> IF months > 0 THEN u_sum \div months ELSE 0,
         pct_months_U_pos |->
             IF months > 0 THEN (months_u_pos * Unit) \div months ELSE 0,
         first_impact_month |-> first_impact_month,
         fs_ratio_final |-> fs_ratio_final,
         fs_target_final |-> fs_ratio_final * final_costs,
         fs_coverage_months_final |-> fs_cov_final,
         p_range_min_final |-> b.pmin,
         p_range_max_final |-> b.pmax,
         p_dyn_final |-> p_dynamic_from_fs(fs_cov_final, params.p4_max),
         phase_final |-> b.phase,
         lambda_in_phase_final |-> b.lam]

\* the loop is exhausted: build and return the summary
Return ==
    /\ pc = "loop"
    /\ t = months
    /\ summary' = summary_of
    /\ pc' = "done"
    /\ UNCHANGED <<argvars, simvars, restvars>>

Next ==
    \/ MonthAllocate
    \/ MonthDivByZero
    \/ MonthFreeze
    \/ Return

Spec == Init /\ [][Next]_vars

\* ------------------------------- trajectories paired with simulate_pz
\* the grid script (phase2_viability_grid.py main, lines 173-183) and the
\* dashboard (phase2_dashboard.py cached_run, lines 137-144) both build a
\* trajectory with their own run_path_until, query the threshold crossings
\* and then call simulate_pz(months, p_to_bc=0.30, params, B0, FS0).

\* (1.0 + rev_growth) ** n
RECURSIVE Pow(_, _)
Pow(b, n) == IF n = 0 THEN Unit ELSE Mul(Pow(b, n - 1), b)

\* variant: the impact spending is paid out of the survival fund
traj_split_impact_from_buffer(p, p_eff, u) ==
    LET BC_in    == Mul(p_eff, u)
        BPZ_in   == Mul(Unit - p_eff, u)
        BPZ_rem  == Mul(Unit - p.fs_pct_of_bpz, BPZ_in)
        imp      == Mul(p.impact_pct_of_bpz_rem, BPZ_rem)
        intern   == Mul(p.internal_pct_of_bpz_rem, BPZ_rem)
    IN  [BC_in |-> BC_in, FS_in |-> Mul(p.fs_pct_of_bpz, BPZ_in) - imp,
         impact |-> imp, rd |-> Mul(p.rd_pct_of_internal, intern)]

\* the split of a positive U (phase2_viability_grid.py:66-76,
\* phase2_dashboard.py:68-80)
traj_split(p, p_eff, u) ==
    LET BC_in    == Mul(p_eff, u)
        BPZ_in   == Mul(Unit - p_eff, u)
        BPZ_rem  == Mul(Unit - p.fs_pct_of_bpz, BPZ_in)
        imp      == Mul(p.impact_pct_of_bpz_rem, BPZ_rem)
        intern   == Mul(p.internal_pct_of_bpz_rem, BPZ_rem)
    IN  [BC_in |-> BC_in, FS_in |-> Mul(p.fs_pct_of_bpz, BPZ_in),
         impact |-> imp, rd |-> Mul(p.rd_pct_of_internal, intern)]

\* the hiring test of both trajectories on the post-allocation FS
traj_hire(p, now, fs_after, c) ==
    /\ (now - tr.last_hire_month) >= p.hire_cooldown_months
    /\ fs_after >= Mul(p.hire_trigger_buffer, fs_ratio_for_employees(tr.employees) * c)

traj_costs == tr.employees * params.cost_per_employee + params.other_fixed_costs

\* --- phase2_viability_grid.py run_path_until: organic revenue A * m
grid_U == Mul(tr.A, tr.m) + Mul(r_monthly(params.r_annual), tr.BC + tr.FS) - traj_costs

grid_p_eff == effective_p(params, coverage(tr.FS, traj_costs), 30)

\* the loop state after an iteration with U > 0 (lines 66-98)
grid_allocate ==
    LET c     == traj_costs
        s     == traj_split(params, grid_p_eff, grid_U)
        den   == c + Unit
        churn == Mul(params.churn_rate, tr.A)
        acq   == Mul(params.acq_churn_ratio, churn)
                 + Mul(params.k_acq, Div(s.impact, den))
        g_raw == Mul(params.km_margin, Div(s.impact, den))
                 + Mul(params.krd_margin, Div(s.rd, den))
        g_m   == Min(params.max_margin_growth, Max(0, g_raw))
        hire  == traj_hire(params, tr.t + 1, tr.FS + s.FS_in, c)
    IN  [t |-> tr.t + 1,
         A |-> Max(0, tr.A + acq - churn),
         m |-> Mul(tr.m, Unit + g_m),
         employees |-> IF hire THEN tr.employees + 1 ELSE tr.employees,
         BC |-> tr.BC + s.BC_in,
         FS |-> tr.FS + s.FS_in,
         hires |-> IF hire THEN tr.hires + 1 ELSE tr.hires,
         last_hire_month |-> IF hire THEN tr.t + 1 ELSE tr.last_hire_month]

\* the row appended at the end of an iteration (lines 100-114)
grid_row(after, u, p_eff, imp, cov_before) ==
    [t |-> after.t, A |-> after.A, m |-> after.m, employees |-> after.employees,
     BC |-> after.BC, FS |-> after.FS, U |-> u, p_eff |-> p_eff, impact |-> imp,
     fs_cov_before |-> cov_before,
     fs_cov_after |->
         coverage(after.FS,
                  after.employees * params.cost_per_employee + params.other_fixed_costs)]

\* one iteration of the grid's run_path_until (lines 43-114)
GridMonth ==
    /\ caller = "grid"
    /\ tr_pc = "loop"
    /\ tr.t < months
    /\ grid_U > 0 => traj_costs + Unit # 0
    /\ LET after == IF grid_U > 0 THEN grid_allocate
                    ELSE [tr EXCEPT !.t = tr.t + 1]
           imp   == IF grid_U > 0
                    THEN traj_split(params, grid_p_eff, grid_U).impact ELSE 0
       IN  /\ tr' = after
           /\ traj' = Append(traj, grid_row(after, grid_U, grid_p_eff, imp,
                                            coverage(tr.FS, traj_costs)))
    /\ UNCHANGED <<caller, A0_arg, m0_arg, tr_pc, crossings>>
    /\ UNCHANGED <<argvars, pc, simvars, summary, polvars, p1vars>>

\* impact / (costs + 1.0) with costs == -1.0 raises ZeroDivisionError (line 81)
GridMonthDivByZero ==
    /\ caller = "grid"
    /\ tr_pc = "loop"
    /\ tr.t < months
    /\ grid_U > 0
    /\ traj_costs + Unit = 0
    /\ LET s == traj_split(params, grid_p_eff, grid_U)
       IN  tr' = [tr EXCEPT !.t = tr.t + 1,
                            !.BC = tr.BC + s.BC_in,
                            !.FS = tr.FS + s.FS_in]
    /\ tr_pc' = "error"
    /\ UNCHANGED <<caller, A0_arg, m0_arg, traj, crossings>>
    /\ UNCHANGED <<argvars, pc, simvars, summary, polvars, p1vars>>

\* variant: the growth factor is compounded from month 1 on
dash_revenue_compounded_early ==
    LET rev0 == Mul(A0_arg, m0_arg)
    IN  Mul(rev0, Pow(Unit + params.rev_growth, tr.t + 1))

\* --- phase2_dashboard.py run_path_until: exogenous revenue
dash_revenue ==
    LET rev0 == Mul(A0_arg, m0_arg)
    IN  Mul(rev0, Pow(Unit + params.rev_growth, tr.t))

dash_U == dash_revenue + Mul(r_monthly(params.r_annual), tr.BC + tr.FS) - traj_costs

dash_p_eff == effective_p(params, coverage(tr.FS, traj_costs), 30)

\* the loop state after an iteration with U > 0 (lines 66-97): A and m stay
dash_allocate ==
    LET c    == traj_costs
        s    == traj_split(params, dash_p_eff, dash_U)
        hire == traj_hire(params, tr.t + 1, tr.FS + s.FS_in, c)
    IN  [tr EXCEPT !.t = tr.t + 1,
                   !.employees = IF hire THEN tr.employees + 1 ELSE tr.employees,
                   !.BC = tr.BC + s.BC_in,
                   !.FS = tr.FS + s.FS_in,
                   !.hires = IF hire THEN tr.hires + 1 ELSE tr.hires,
                   !.last_hire_month = IF hire THEN tr.t + 1 ELSE tr.last_hire_month]

\* the row appended at the end of an iteration (lines 99-117)
dash_row(after, rev, interest, u, p_eff, imp, rd) ==
    LET costs_after == after.employees * params.cost_per_employee
                       + params.other_fixed_costs
    IN  [month |-> after.t, people |-> after.A, margin_per_person |-> after.m,
         employees |-> after.employees, monthly_costs |-> costs_after,
         revenue |-> rev, interest |-> interest, utility |-> u,
         p_to_investment |-> p_eff, impact_spend |-> imp, rd_spend |-> rd,
         BC |-> after.BC, FS |-> after.FS,
         FS_coverage_months |-> coverage(after.FS, costs_after)]

\* one iteration of the dashboard's run_path_until (lines 43-117)
DashMonth ==
    /\ caller = "dashboard"
    /\ tr_pc = "loop"
    /\ tr.t < months
    /\ LET pos   == dash_U > 0
           s     == traj_split(params, dash_p_eff, dash_U)
           after == IF pos THEN dash_allocate ELSE [tr EXCEPT !.t = tr.t + 1]
       IN  /\ tr' = after
           /\ traj' = Append(traj,
                  dash_row(after, dash_revenue,
                           Mul(r_monthly(params.r_annual), tr.BC + tr.FS), dash_U,
                           dash_p_eff,
                           IF pos THEN s.impact ELSE 0,
                           IF pos THEN s.rd ELSE 0))
    /\ UNCHANGED <<caller, A0_arg, m0_arg, tr_pc, crossings>>
    /\ UNCHANGED <<argvars, pc, simvars, summary, polvars, p1vars>>

\* --- threshold crossings
\* the recorded post-allocation coverage of a row
row_coverage(r) ==
    IF caller = "grid" THEN r.fs_cov_after ELSE r.FS_coverage_months

row_month(r) == IF caller = "grid" THEN r.t ELSE r.month

\* first_crossing_month (phase2_viability_grid.py:119-123,
\* phase2_dashboard.py:122-126): NaN / None when no row qualifies
first_crossing_month(rows, threshold) ==
    LET hit == { i \in 1..Len(rows) : row_coverage(rows[i]) >= threshold }
    IN  IF hit = {} THEN NaN
        ELSE <<row_month(rows[CHOOSE i \in hit : \A j \in hit : i <= j])>>

\* the loop of run_path_until is exhausted, the three crossings are queried
\* and simulate_pz is called (grid main 177-183, cached_run 139-143)
TrajCrossings ==
    /\ tr_pc = "loop"
    /\ tr.t = months
    /\ Len(traj) > 0
    /\ crossings' = [t3 |-> first_crossing_month(traj, 300),
                     t6 |-> first_crossing_month(traj, 600),
                     t12 |-> first_crossing_month(traj, 1200)]
    /\ tr_pc' = "done"
    /\ pc' = "loop"
    /\ UNCHANGED <<caller, A0_arg, m0_arg, tr, traj>>
    /\ UNCHANGED <<argvars, simvars, summary, polvars, p1vars>>

\* with a horizon of 0 the DataFrame has no columns: traj["fs_cov_after"]
\* (traj["FS_coverage_months"]) raises KeyError in first_crossing_month
TrajCrossingsKeyError ==
    /\ tr_pc = "loop"
    /\ tr.t = months
    /\ Len(traj) = 0
    /\ tr_pc' = "error"
    /\ UNCHANGED <<caller, A0_arg, m0_arg, tr, traj, crossings>>
    /\ UNCHANGED <<argvars, pc, simvars, summary, polvars, p1vars>>

\* configurations of the paired runs
TrajGovSpace ==
    { [use_dynamic_p |-> d, p_override |-> o, p4_max |-> 70, rev_growth |-> g] :
        d \in BOOLEAN, o \in {0 - Unit, Unit \div 2}, g \in {0, 10} }

TrajParamSpace ==
    { f @@ s @@ c @@ a @@ g @@ h @@ v :
        f \in FinanceSpace, s \in StartSpace, c \in CostSpace,
        a \in { x \in AllocSpace : x.fs_pct_of_bpz <= Unit },
        g \in GrowthSpace, h \in HiringSpace, v \in TrajGovSpace }

InitTraj ==
    /\ months \in 0..MaxMonths
    /\ p_to_bc = 30
    /\ params \in TrajParamSpace
    /\ caller \in {"grid", "dashboard"}
    /\ IF caller = "grid"
       THEN \* params = replace(base, A0=A0, m0=m0); BC = FS = 0.0
            /\ A0_arg = params.A0
            /\ m0_arg = params.m0
            /\ B0 = 0
            /\ FS0 = 0
       ELSE \* cached_run(horizon, params_dict, A0, m0, BC0, FS0); params_dict
            \* has no A0 / m0 key, so PZParams keeps its defaults 100.0 / 25.0
            /\ params.A0 = 100 * Unit
            /\ params.m0 = 25 * Unit
            /\ \E s \in StartSpace : A0_arg = s.A0 /\ m0_arg = s.m0
            /\ \E b \in BalanceSpace : B0 = b.B0 /\ FS0 = b.FS0
    /\ tr_pc = "loop"
    /\ tr = TrajStart(A0_arg, m0_arg, B0, FS0, params.employees0)
    /\ traj = << >>
    /\ crossings = << >>
    /\ pc = "wait"
    /\ SimStart(params, B0, FS0)
    /\ summary = << >>
    /\ PolicyIdle
    /\ Phase1Idle

NextTraj ==
    \/ GridMonth
    \/ GridMonthDivByZero
    \/ DashMonth
    \/ TrajCrossings
    \/ TrajCrossingsKeyError
    \/ MonthAllocate
    \/ MonthDivByZero
    \/ MonthFreeze
    \/ Return

SpecTraj == InitTraj /\ [][NextTraj]_vars

\* ------------------------------------------- the policy engine on its own
MaxCov == 3000

\* coverage from -1.00 to MaxCov/100 in steps of 0.01, and +inf
CovVals == ((0 - Unit)..MaxCov) \cup {Inf}

\* caps offered by the dashboard slider (0.0 to 0.90) and the default 0.70
CapVals == { 0, 20, 40, 70, 90, 100 }

\* PZParams() with every default (pz_model.py:8-50)
DefaultParams ==
    [r_annual |-> 4, A0 |-> 10000, m0 |-> 2500, employees0 |-> 2,
     cost_per_employee |-> 100000, other_fixed_costs |-> 0,
     fs_pct_of_bpz |-> 30, impact_pct_of_bpz_rem |-> 60,
     internal_pct_of_bpz_rem |-> 40, rd_pct_of_internal |-> 60,
     churn_rate |-> 3, acq_churn_ratio |-> 100, k_acq |-> 20,
     km_margin |-> 1, krd_margin |-> 0, max_margin_growth |-> 3,
     hire_cooldown_months |-> 3, hire_trigger_buffer |-> 120,
     use_dynamic_p |-> TRUE, p_override |-> 0 - Unit, p4_max |-> 70,
     rev_growth |-> 0]

\* no run of simulate_pz is in progress
SimIdle ==
    /\ months = 0
    /\ p_to_bc = 30
    /\ params = DefaultParams
    /\ B0 = 0
    /\ FS0 = 0
    /\ pc = "idle"
    /\ SimStart(params, B0, FS0)
    /\ summary = << >>

InitPolicy ==
    /\ SimIdle
    /\ TrajIdle
    /\ Phase1Idle
    /\ pol_pc = "call"
    /\ fs_cov_arg \in CovVals
    /\ p4_max_arg \in CapVals
    /\ bounds_ret = << >>
    /\ p_dyn_ret = << >>

\* p_bounds_by_fs(fs_cov, p4_max) returns
PolicyBounds ==
    /\ pol_pc = "call"
    /\ bounds_ret' = p_bounds_by_fs(fs_cov_arg, p4_max_arg)
    /\ pol_pc' = "bounds"
    /\ UNCHANGED <<fs_cov_arg, p4_max_arg, p_dyn_ret>>
    /\ UNCHANGED <<argvars, pc, simvars, summary, trajvars, p1vars>>

\* p_dynamic_from_fs(fs_cov, p4_max) returns
PolicyDynamic ==
    /\ pol_pc = "bounds"
    /\ p_dyn_ret' = <<p_dynamic_from_fs(fs_cov_arg, p4_max_arg)>>
    /\ pol_pc' = "done"
    /\ UNCHANGED <<fs_cov_arg, p4_max_arg, bounds_ret>>
    /\ UNCHANGED <<argvars, pc, simvars, summary, trajvars, p1vars>>

NextPolicy ==
    \/ PolicyBounds
    \/ PolicyDynamic

SpecPolicy == InitPolicy /\ [][NextPolicy]_vars

\* -------------------------------------------- simulate_phase1 (common.py)
\* 100 people, base costs 2000.00, margins 10, 20, 25 and 30 a head (revenue
\* below, at and above the costs), alpha at both ends of [0,1] and inside
Phase1Space ==
    { [months |-> n, A0 |-> 100, C_base |-> 2000 * Unit, r_annual |-> r,
       alpha |-> a, margin_per_person |-> mg * Unit, B0 |-> b] :
        n \in 0..MaxMonths, r \in {4, 24}, a \in {0, 50, 90, Unit},
        mg \in {10, 20, 25, 30}, b \in {0, 1000 * Unit} }

InitPhase1 ==
    /\ SimIdle
    /\ TrajIdle
    /\ PolicyIdle
    /\ p1_pc = "loop"
    /\ phase1_args \in Phase1Space
    /\ Phase1Start(phase1_args.B0)
    /\ phase1_ret = << >>

\* common.py:63-65: revenue, interest on the bond capital and utility
phase1_u ==
    LET revenue  == phase1_args.A0 * phase1_args.margin_per_person
        interest == Mul(r_monthly(phase1_args.r_annual), bond_capital)
    IN  revenue + interest - phase1_args.C_base

\* variant: a loss month is charged to the bond capital
Phase1Freeze_absorbs_loss ==
    /\ p1_pc = "loop"
    /\ p1_t < phase1_args.months
    /\ phase1_u <= 0
    /\ p1_t' = p1_t + 1
    /\ p1_u' = phase1_u
    /\ p1_u_sum' = p1_u_sum + phase1_u
    /\ bond_capital' = bond_capital + Mul(phase1_args.alpha, phase1_u)
    /\ UNCHANGED <<p1_pc, phase1_args, p1_impact_cum, months_positive_u,
                   p1_first_impact_month, u_positive_sum, reinvest, p1_impact,
                   phase1_ret>>
    /\ UNCHANGED <<argvars, pc, simvars, summary, polvars, trajvars>>

\* a month with u <= 0: no reinvestment, no impact (common.py:62-67, 81)
Phase1Freeze ==
    /\ p1_pc = "loop"
    /\ p1_t < phase1_args.months
    /\ phase1_u <= 0
    /\ p1_t' = p1_t + 1
    /\ p1_u' = phase1_u
    /\ p1_u_sum' = p1_u_sum + phase1_u
    /\ UNCHANGED <<p1_pc, phase1_args, bond_capital, p1_impact_cum,
                   months_positive_u, p1_first_impact_month, u_positive_sum,
                   reinvest, p1_impact, phase1_ret>>
    /\ UNCHANGED <<argvars, pc, simvars, summary, polvars, trajvars>>

\* a month with u > 0 (common.py:62-80)
Phase1Gain ==
    /\ p1_pc = "loop"
    /\ p1_t < phase1_args.months
    /\ phase1_u > 0
    /\ p1_t' = p1_t + 1
    /\ p1_u' = phase1_u
    /\ p1_u_sum' = p1_u_sum + phase1_u
    /\ months_positive_u' = months_positive_u + 1
    /\ u_positive_sum' = u_positive_sum + phase1_u
    /\ reinvest' = Mul(phase1_args.alpha, phase1_u)
    /\ p1_impact' = Mul(Unit - phase1_args.alpha, phase1_u)
    /\ bond_capital' = bond_capital + reinvest'
    /\ p1_impact_cum' = p1_impact_cum + p1_impact'
    /\ p1_first_impact_month' =
           IF p1_first_impact_month = << >> /\ p1_impact' > 0
           THEN <<p1_t + 1>> ELSE p1_first_impact_month
    /\ UNCHANGED <<p1_pc, phase1_args, phase1_ret>>
    /\ UNCHANGED <<argvars, pc, simvars, summary, polvars, trajvars>>

\* common.py:83-98: the returned dict
phase1_summary ==
    LET n == phase1_args.months
    IN  [months |-> n,
         A0 |-> phase1_args.A0,
         C_base |-> phase1_args.C_base,
         r_annual |-> phase1_args.r_annual,
         alpha |-> phase1_args.alpha,
         margin_per_person |-> phase1_args.margin_per_person,
         bond_capital_end |-> bond_capital,
         impact_cum |-> p1_impact_cum,
         months_positive_u |-> months_positive_u,
         pct_months_positive_u |->
             IF n > 0 THEN (months_positive_u * Unit) \div n ELSE 0,
         first_impact_month |-> p1_first_impact_month,
         avg_u |-> IF n > 0 THEN p1_u_sum \div n ELSE 0,
         avg_u_positive |->
             IF months_positive_u > 0
             THEN u_positive_sum \div months_positive_u ELSE 0]

\* the loop is exhausted: simulate_phase1 returns
Phase1Return ==
    /\ p1_pc = "loop"
    /\ p1_t = phase1_args.months
    /\ phase1_ret' = phase1_summary
    /\ p1_pc' = "done"
    /\ UNCHANGED <<phase1_args, p1_t, bond_capital, p1_impact_cum,
                   months_positive_u, p1_first_impact_month, p1_u_sum,
                   u_positive_sum, p1_u, reinvest, p1_impact>>
    /\ UNCHANGED <<argvars, pc, simvars, summary, polvars, trajvars>>

NextPhase1 ==
    \/ Phase1Gain
    \/ Phase1Freeze
    \/ Phase1Return

SpecPhase1 == InitPhase1 /\ [][NextPhase1]_vars

\* ====================================================== properties checked
InUnit(x) == 0 <= x /\ x <= Unit

\* all allocation ratios in [0,1], no negative monetary input or balance
InRangeConfig ==
    /\ InUnit(params.fs_pct_of_bpz)
    /\ InUnit(params.impact_pct_of_bpz_rem)
    /\ InUnit(params.internal_pct_of_bpz_rem)
    /\ InUnit(params.rd_pct_of_internal)
    /\ params.cost_per_employee >= 0
    /\ params.other_fixed_costs >= 0
    /\ params.A0 >= 0
    /\ params.m0 >= 0
    /\ B0 >= 0
    /\ FS0 >= 0

\* C1: with ratio fields in [0,1] and non-negative monetary inputs and
\* balances, BC and FS never decrease from one month to the next and the
\* population A is never negative, for every horizon.
C1_BalancesNeverDecrease ==
    [][InRangeConfig =>
         (BC' >= BC /\ FS' >= FS /\ A >= 0 /\ A' >= 0)]_vars

\* an in-range run in which BC and FS both grew and the population clamp acted
C1_Witness ==
    /\ InRangeConfig
    /\ t >= 2
    /\ BC > B0
    /\ FS > FS0
    /\ params.A0 > 0
    /\ A = 0

\* C2: every month step of simulate_pz completes without an error, also
\* when the monthly costs are zero or negative (for example costs = -1).
C2_NoErrorState == pc # "error"

\* C4: with a cooldown c >= 1 a month adds at most one employee, and a hire
\* in month t2 that follows a hire in month t1 has t2 - t1 >= c, whatever
\* FS0 is; last_hire_month is the month of the latest hire.
C4_HireCooldown ==
    [][params.hire_cooldown_months >= 1 =>
         /\ hires' # hires =>
               /\ hires' = hires + 1
               /\ employees' = employees + 1
               /\ last_hire_month' = t'
               /\ hires > 0 => t' - last_hire_month >= params.hire_cooldown_months
         /\ hires' = hires =>
               /\ employees' = employees
               /\ last_hire_month' = last_hire_month]_vars

\* two hires, three months apart, in a run that starts with a large buffer
C4_Witness ==
    /\ params.hire_cooldown_months = 3
    /\ FS0 > 0
    /\ hires = 2
    /\ last_hire_month = 4
    /\ FS >= 2 * Mul(params.hire_trigger_buffer, 3 * costs)

\* C5: a month with U <= 0 leaves population, margin, employees, BC, FS,
\* cumulative impact, the hire counter and the last-hire marker unchanged;
\* only the utility sum and the month counter change.
C5_LossMonthFreezes ==
    [][(t' = t + 1 /\ U' <= 0) =>
         /\ UNCHANGED <<A, m, employees, BC, FS, impact_cum, hires, last_hire_month>>
         /\ UNCHANGED <<months_u_pos, first_impact_month, last_p_eff, last_phase>>
         /\ u_sum' = u_sum + U']_vars

\* a loss month that follows a month in which money was allocated
C5_Witness ==
    /\ t >= 2
    /\ U < 0
    /\ months_u_pos >= 1
    /\ BC > B0
    /\ FS > FS0

ValidOverride == InUnit(params.p_override)

\* C6: in a month with U > 0 the share is the override when it lies in
\* [0,1], else the dynamic value of that month's coverage when use_dynamic_p,
\* else the fixed fraction p_to_bc; the share applied to the split is in [0,1].
C6_SharePrecedence ==
    [][(t' = t + 1 /\ U' > 0) =>
         LET p   == last_p_eff'[1]
             src == IF ValidOverride THEN params.p_override
                    ELSE IF params.use_dynamic_p
                         THEN p_dynamic_from_fs(fs_cov', params.p4_max)
                         ELSE p_to_bc
         IN  /\ p = Max(0, Min(Unit, src))
             /\ InUnit(p)
             /\ BC' = BC + Mul(p, U')]_vars

\* the fixed fraction 1.5 was the source and was cut down to 1
C6_Witness ==
    /\ t >= 1
    /\ U > 0
    /\ ~ValidOverride
    /\ ~params.use_dynamic_p
    /\ p_to_bc > Unit
    /\ last_p_eff = <<Unit>>
    /\ BC = B0 + U

\* C7 as stated: only the sentinel -1 switches the override off, so every
\* other override value decides the share (cut to [0,1]).
C7_OnlySentinelDisables ==
    (t >= 1 /\ U > 0 /\ params.p_override # 0 - Unit) =>
        last_p_eff = <<Max(0, Min(Unit, params.p_override))>>

\* C7 amended: every override outside [0,1], the sentinel -1 included, means
\* no override; every override in [0,1] is the share verbatim: with 0 BC
\* receives nothing, with 1 FS and impact receive nothing.
C7_OverrideVerbatim ==
    [][(t' = t + 1 /\ U' > 0) =>
         /\ ValidOverride =>
               /\ last_p_eff' = <<params.p_override>>
               /\ params.p_override = 0 => BC' = BC
               /\ params.p_override = Unit =>
                     (FS' = FS /\ impact_cum' = impact_cum)
         /\ ~ValidOverride =>
               last_p_eff' =
                   <<Max(0, Min(Unit,
                        IF params.use_dynamic_p
                        THEN p_dynamic_from_fs(fs_cov', params.p4_max)
                        ELSE p_to_bc))>>]_vars

\* override 0 in force for two allocating months: BC got nothing, FS grew
C7_Witness ==
    /\ params.p_override = 0
    /\ months_u_pos >= 2
    /\ last_p_eff = <<0>>
    /\ BC = B0
    /\ FS > FS0

\* C10: when the month's costs are zero or negative the coverage is +inf,
\* the phase is 4 with lambda = 1, and the dynamic share is the cap p4_max;
\* the same holds for the final coverage of the summary.
C10_InfiniteCoverage ==
    /\ (t >= 1 /\ U > 0 /\ costs <= 0) =>
          /\ fs_cov = Inf
          /\ last_phase = <<4>>
          /\ p_bounds_by_fs(fs_cov, params.p4_max).lam = Unit
          /\ p_dynamic_from_fs(fs_cov, params.p4_max) = params.p4_max
          /\ (~ValidOverride /\ params.use_dynamic_p) =>
                last_p_eff = <<Max(0, Min(Unit, params.p4_max))>>
    /\ (pc = "done" /\ summary.fs_target_final <= 0) =>
          /\ summary.fs_coverage_months_final = Inf
          /\ summary.phase_final = 4
          /\ summary.lambda_in_phase_final = Unit
          /\ summary.p_dyn_final = params.p4_max

\* a month with costs 0 under the dynamic policy: the share is the cap
C10_Witness ==
    /\ t >= 1
    /\ U > 0
    /\ costs = 0
    /\ ~ValidOverride
    /\ params.use_dynamic_p
    /\ fs_cov = Inf
    /\ last_p_eff = <<params.p4_max>>

\* the value of a phase's formula pMin + lambda*(pMax - pMin) at a given lambda
AtLambda(b, lam) == b.pmin + Mul(lam, b.pmax - b.pmin)

\* the phase just below a boundary: the bounds classified 0.01 under it
PhaseBelow == p_bounds_by_fs(fs_cov_arg - 1, p4_max_arg)

AtBoundary == pol_pc = "done" /\ fs_cov_arg \in {300, 600, 1200}

\* C8 as stated: at coverage exactly 3, 6 and 12 the lower phase's formula at
\* lambda = 1 equals the upper phase's formula at lambda = 0.
C8_ContinuousAtBoundaries ==
    AtBoundary =>
        /\ bounds_ret.lam = 0
        /\ AtLambda(PhaseBelow, Unit) = AtLambda(bounds_ret, 0)
        /\ p_dyn_ret = <<AtLambda(PhaseBelow, Unit)>>

\* C8 amended: the dynamic share jumps at every phase boundary: at 3 from
\* 0.15 (Phase 1, lambda 1) to 0.20 (Phase 2, lambda 0), at 6 from 0.35 to
\* 0.30 and at 12 from 0.50 to 0.40, whatever the cap.
C8_JumpsAtBoundaries ==
    AtBoundary =>
        LET below == AtLambda(PhaseBelow, Unit)
            above == AtLambda(bounds_ret, 0)
        IN  /\ bounds_ret.lam = 0
            /\ p_dyn_ret = <<above>>
            /\ fs_cov_arg = 300  => (below = 15 /\ above = 20)
            /\ fs_cov_arg = 600  => (below = 35 /\ above = 30)
            /\ fs_cov_arg = 1200 => (below = 50 /\ above = 40)

\* the policy evaluated at coverage exactly 6.0: Phase 3 starts at 0.30
C8_Witness ==
    /\ pol_pc = "done"
    /\ fs_cov_arg = 600
    /\ bounds_ret.phase = 3
    /\ p_dyn_ret = <<30>>

\* C9: for every coverage and every cap in [0,1] the phase is 1 below 3,
\* 2 in [3,6), 3 in [6,12) and 4 from 12 on, lambda is in [0,1], and the
\* dynamic share lies inside the phase's range [0.05,0.15], [0.20,0.35],
\* [0.30,0.50] or [0.40, cap].
C9_ShareInsidePhaseRange ==
    (pol_pc = "done" /\ InUnit(p4_max_arg)) =>
        LET c  == fs_cov_arg
            ph == IF c < 300 THEN 1 ELSE IF c < 600 THEN 2
                  ELSE IF c < 1200 THEN 3 ELSE 4
            lo == IF ph = 1 THEN 5 ELSE IF ph = 2 THEN 20
                  ELSE IF ph = 3 THEN 30 ELSE 40
            hi == IF ph = 1 THEN 15 ELSE IF ph = 2 THEN 35
                  ELSE IF ph = 3 THEN 50 ELSE p4_max_arg
        IN  /\ bounds_ret.phase = ph
            /\ InUnit(bounds_ret.lam)
            /\ bounds_ret.pmin = lo
            /\ bounds_ret.pmax = hi
            /\ lo <= p_dyn_ret[1]
            /\ p_dyn_ret[1] <= hi

\* the terminal-state fields of the last trajectory row and of the summary
LastRowTerminal ==
    LET r == traj[Len(traj)]
    IN  IF caller = "grid"
        THEN [BC |-> r.BC, FS |-> r.FS, employees |-> r.employees,
              A |-> r.A, m |-> r.m, coverage |-> r.fs_cov_after]
        ELSE [BC |-> r.BC, FS |-> r.FS, employees |-> r.employees,
              A |-> r.people, m |-> r.margin_per_person,
              coverage |-> r.FS_coverage_months]

SummaryTerminal ==
    [BC |-> summary.BC_end, FS |-> summary.FS_end,
     employees |-> summary.employees_end, A |-> summary.A_end,
     m |-> summary.m_end, coverage |-> summary.fs_coverage_months_final]

\* C3: for the same inputs the summary of simulate_pz and the last row of
\* the trajectory of run_path_until agree on BC, FS, employees, population,
\* margin and final coverage, for the grid's trajectory and the dashboard's.
C3_SummaryMatchesTrajectory ==
    (pc = "done" /\ tr_pc = "done") => SummaryTerminal = LastRowTerminal

\* the part of C3 that the grid script's pairing satisfies
C3_GridPairAgrees ==
    (pc = "done" /\ tr_pc = "done" /\ caller = "grid") =>
        SummaryTerminal = LastRowTerminal

\* C11: with the coverage held fixed at 12 or more, a larger cap never gives
\* a smaller dynamic share; below 12 the share does not depend on the cap.
C11_ShareMonotoneInCap ==
    pol_pc = "done" =>
        \A c \in CapVals :
            /\ (fs_cov_arg >= 1200 /\ p4_max_arg <= c) =>
                   p_dyn_ret[1] <= p_dynamic_from_fs(fs_cov_arg, c)
            /\ (fs_cov_arg >= 1200 /\ c <= p4_max_arg) =>
                   p_dynamic_from_fs(fs_cov_arg, c) <= p_dyn_ret[1]
            /\ fs_cov_arg < 1200 =>
                   p_dynamic_from_fs(fs_cov_arg, c) = p_dyn_ret[1]

\* Phase 4 halfway up: the cap 0.20 gives 0.30, the cap 0.70 gives 0.55
C11_Witness ==
    /\ pol_pc = "done"
    /\ fs_cov_arg = 1800
    /\ p4_max_arg = 20
    /\ p_dyn_ret = <<30>>
    /\ p_dynamic_from_fs(fs_cov_arg, 70) = 55

\* C12: a run with months = 0 performs no step and returns the initial
\* balances and states, zero counters and averages, and the not-a-number
\* marker for p_eff_last, phase_last and first_impact_month; no error.
C12_ZeroHorizon ==
    months = 0 =>
        /\ pc # "error"
        /\ t = 0
        /\ pc = "done" =>
              /\ summary.BC_end = B0
              /\ summary.FS_end = FS0
              /\ summary.A_end = params.A0
              /\ summary.m_end = params.m0
              /\ summary.employees_end = params.employees0
              /\ summary.hires_total = 0
              /\ summary.impact_cum_end = 0
              /\ summary.pct_months_U_pos = 0
              /\ summary.avg_U = 0
              /\ summary.p_eff_last = NaN
              /\ summary.phase_last = NaN
              /\ summary.first_impact_month = NaN

\* a zero-horizon run that started with a buffer has returned it untouched
C12_Witness ==
    /\ months = 0
    /\ pc = "done"
    /\ FS0 > 0
    /\ summary.FS_end = FS0
    /\ summary.months = 0

\* the months of the trajectory whose recorded coverage meets a threshold
HitMonths(threshold) ==
    { row_month(traj[i]) : i \in { j \in 1..Len(traj) :
                                      row_coverage(traj[j]) >= threshold } }

\* res is the smallest such month, or the not-reached marker when there is none
IsFirstCrossing(res, threshold) ==
    /\ (res = NaN) <=> (HitMonths(threshold) = {})
    /\ res # NaN =>
          /\ res[1] \in HitMonths(threshold)
          /\ res[1] \in 1..months
          /\ \A h \in HitMonths(threshold) : res[1] <= h

\* the loop of run_path_until has run to its end and the queries were made
TrajectoryQueried == tr_pc # "loop" /\ tr.t = months /\ Len(traj) = months

\* C13: for every trajectory and threshold first_crossing_month returns the
\* smallest month in 1..horizon whose recorded post-allocation coverage is
\* >= the threshold, and the not-reached value exactly when there is none.
C13_FirstCrossing ==
    TrajectoryQueried =>
        /\ crossings # << >>
        /\ IsFirstCrossing(crossings.t3, 300)
        /\ IsFirstCrossing(crossings.t6, 600)
        /\ IsFirstCrossing(crossings.t12, 1200)

\* the part of C13 that holds: trajectories of one month or more
C13_FirstCrossingOfRows ==
    tr_pc = "done" =>
        /\ IsFirstCrossing(crossings.t3, 300)
        /\ IsFirstCrossing(crossings.t6, 600)
        /\ IsFirstCrossing(crossings.t12, 1200)

\* a trajectory that crosses 3 in its fourth month and never reaches 12
C13_SomeCrossing ==
    /\ tr_pc = "done"
    /\ crossings.t3 = <<4>>
    /\ crossings.t12 = NaN

\* C14: in every month with U > 0 the coverage behind the effective share and
\* the reported phase is FS at the start of the month divided by the costs of
\* the pre-hire employee count; the month's own inflow and hire play no part.
C14_CoverageFromMonthStart ==
    [][ (pc = "loop" /\ t' = t + 1 /\ U' > 0) =>
            LET c   == employees * params.cost_per_employee
                       + params.other_fixed_costs
                cov == IF c > 0 THEN (FS * Unit) \div c ELSE Inf
            IN  /\ costs' = c
                /\ fs_cov' = cov
                /\ last_phase' = <<p_bounds_by_fs(cov, params.p4_max).phase>>
                /\ last_p_eff' = <<effective_p(params, cov, p_to_bc)>>
                /\ BC' - BC = Mul(effective_p(params, cov, p_to_bc), U') ]_vars

\* a month that hired: the coverage and phase of the balances it leaves behind
\* differ from the coverage and phase it was governed by
C14_Witness ==
    /\ t >= 1
    /\ U > 0
    /\ last_hire_month = t
    /\ fs_cov # Inf
    /\ params.use_dynamic_p
    /\ params.p_override = 0 - Unit
    /\ coverage(FS, month_costs) # fs_cov
    /\ last_phase # <<p_bounds_by_fs(coverage(FS, month_costs), params.p4_max).phase>>

\* the hiring condition of a month, from the values the month starts with and
\* the buffer it leaves: U > 0, cooldown elapsed, buffer at or above the
\* trigger times the target ratio (3, 6 or 12 months) times the costs
HireDue ==
    LET c     == employees * params.cost_per_employee + params.other_fixed_costs
        ratio == IF employees <= 2 THEN 3 ELSE IF employees <= 6 THEN 6 ELSE 12
    IN  /\ U' > 0
        /\ (t + 1) - last_hire_month >= params.hire_cooldown_months
        /\ FS' >= Mul(params.hire_trigger_buffer, ratio * c)

\* a hire adds exactly one employee and stamps the month; no hire changes none
HireOutcome ==
    IF HireDue
    THEN employees' = employees + 1 /\ hires' = hires + 1
         /\ last_hire_month' = t + 1
    ELSE UNCHANGED <<employees, hires, last_hire_month>>

\* C15: in month t a hire happens if and only if U > 0, the cooldown has
\* elapsed and the post-allocation FS is >= hire_trigger_buffer * ratio * costs
\* (pre-hire employees and costs; ratio 3 / 6 / 12); a hire adds exactly one
\* employee and sets last_hire_month to t.
C15_HireIff ==
    [][ (pc = "loop" /\ t' = t + 1) => HireOutcome ]_vars

\* the part of C15 that holds: months whose growth step does not raise
C15_HireIffInCompletedMonths ==
    [][ (pc = "loop" /\ t' = t + 1 /\ pc' # "error") => HireOutcome ]_vars

\* hires at each of the three target ratios, and a month that was held back
C15_HireAtRatio6 == last_hire_month = t /\ t >= 1 /\ employees = 4
C15_HireAtRatio12 == last_hire_month = t /\ t >= 1 /\ employees = 8
C15_HeldByCooldown ==
    /\ t = 2 /\ U > 0 /\ last_hire_month = 1 /\ params.hire_cooldown_months = 3
    /\ FS >= Mul(params.hire_trigger_buffer,
                 fs_ratio_for_employees(employees) * costs)

\* the flows of a month with U > 0, read from the step: what went to BC and to
\* FS, and the remainder of the community pool after the buffer's share
FlowsOfMonth ==
    LET BPZ_in == Mul(Unit - last_p_eff'[1], U')
    IN  [BC_in |-> BC' - BC, FS_in |-> FS' - FS,
         rem |-> Mul(Unit - params.fs_pct_of_bpz, BPZ_in)]

\* internal is the rest of the remainder after impact, and the four flows add
\* up to U (each of the products is rounded down to a hundredth, so the sum
\* may fall short of U by up to three hundredths)
FlowsConserved ==
    LET f    == FlowsOfMonth
        flow == f.BC_in + f.FS_in + impact' + internal'
    IN  /\ internal' = Mul(Unit - params.impact_pct_of_bpz_rem, f.rem)
        /\ flow <= U'
        /\ U' - flow <= 3

\* C16: in every month with U > 0, for every configuration with ratio fields
\* in [0,1], internal = (1 - impactShare) * rem, so the four flows of the month
\* add up to the utility: investmentIn + bufferIn + impact + internal = U.
C16_FlowsAddUpToU ==
    [][ (pc = "loop" /\ t' = t + 1 /\ U' > 0 /\ InRangeConfig)
            => FlowsConserved ]_vars

\* the part of C16 that holds: configurations whose impact and internal
\* shares sum to 1
C16_FlowsAddUpWhenSharesSumToOne ==
    [][ (/\ pc = "loop" /\ t' = t + 1 /\ U' > 0 /\ InRangeConfig
         /\ params.impact_pct_of_bpz_rem + params.internal_pct_of_bpz_rem = Unit)
            => FlowsConserved ]_vars

\* a month in which impact and internal together exceed the remainder
C16_MoneyCreated ==
    /\ t = 1 /\ U > 0 /\ InRangeConfig
    /\ impact + internal + (BC - B0) + (FS - FS0) > U

\* the configuration of the worked example: two employees at 1000, no other
\* costs, 100 people at margin 25, 4% a year, default allocation ratios,
\* dynamic policy without override, empty balances
WorkedExampleConfig ==
    /\ params.employees0 = 2
    /\ params.cost_per_employee = 1000 * Unit
    /\ params.other_fixed_costs = 0
    /\ params.A0 = 100 * Unit
    /\ params.m0 = 25 * Unit
    /\ params.r_annual = 4
    /\ params.fs_pct_of_bpz = 30
    /\ params.impact_pct_of_bpz_rem = 60
    /\ params.internal_pct_of_bpz_rem = 40
    /\ params.rd_pct_of_internal = 60
    /\ params.use_dynamic_p
    /\ params.p_override = 0 - Unit
    /\ B0 = 0
    /\ FS0 = 0

\* C17: with the worked-example configuration month 1 has costs 2000, U 500
\* (revenue 2500, no interest) and coverage 0, so Phase 1 applies with share
\* 0.05 in [0.05, 0.15]; BC becomes 25 and FS becomes 0.30 * 475 = 142.5.
C17_FirstMonthOfExample ==
    (WorkedExampleConfig /\ t = 1) =>
        /\ pc # "error"
        /\ costs = 2000 * Unit
        /\ U = 500 * Unit
        /\ fs_cov = 0
        /\ last_phase = <<1>>
        /\ last_p_eff = <<5>>
        /\ p_bounds_by_fs(fs_cov, params.p4_max).pmin = 5
        /\ p_bounds_by_fs(fs_cov, params.p4_max).pmax = 15
        /\ BC = 25 * Unit
        /\ FS = 14250
        /\ impact + internal = 33250

\* the first month of the worked example has been simulated
C17_Witness ==
    /\ WorkedExampleConfig
    /\ t = 1
    /\ months_u_pos = 1
    /\ FS = 14250

\* what the month appended by a step of the dashboard trajectory must be:
\* revenue A0 * m0 * (1 + rev_growth)^(t-1), people and margin as passed in,
\* the split of a positive utility and the hiring test as in organic mode
ExogenousMonth ==
    LET row  == traj'[Len(traj')]
        c    == tr.employees * params.cost_per_employee + params.other_fixed_costs
        rev  == Mul(Mul(A0_arg, m0_arg), Pow(Unit + params.rev_growth, tr.t))
        u    == rev + Mul(r_monthly(params.r_annual), tr.BC + tr.FS) - c
        p    == effective_p(params, coverage(tr.FS, c), 30)
        pool == Mul(Unit - p, u)
        due  == /\ u > 0
                /\ (tr.t + 1) - tr.last_hire_month >= params.hire_cooldown_months
                /\ tr'.FS >= Mul(params.hire_trigger_buffer,
                                 fs_ratio_for_employees(tr.employees) * c)
    IN  /\ Len(traj') = tr.t + 1
        /\ row.month = tr.t + 1
        /\ row.people = A0_arg /\ tr'.A = A0_arg
        /\ row.margin_per_person = m0_arg /\ tr'.m = m0_arg
        /\ row.revenue = rev
        /\ row.utility = u
        /\ row.BC = tr'.BC /\ row.FS = tr'.FS /\ row.employees = tr'.employees
        /\ tr'.BC = IF u > 0 THEN tr.BC + Mul(p, u) ELSE tr.BC
        /\ tr'.FS = IF u > 0 THEN tr.FS + Mul(params.fs_pct_of_bpz, pool) ELSE tr.FS
        /\ row.impact_spend =
               IF u > 0
               THEN Mul(params.impact_pct_of_bpz_rem,
                        Mul(Unit - params.fs_pct_of_bpz, pool))
               ELSE 0
        /\ tr'.employees = IF due THEN tr.employees + 1 ELSE tr.employees
        /\ tr'.last_hire_month = IF due THEN tr.t + 1 ELSE tr.last_hire_month

\* C19: in exogenous-revenue mode the growth update is skipped: population and
\* margin equal A0 and m0 in every month, the revenue of month t is
\* A0 * m0 * (1 + rev_growth)^(t-1), and allocation and hiring follow the same
\* rules as in organic mode.
C19_ExogenousRevenue ==
    [][ (caller = "dashboard" /\ tr_pc = "loop" /\ tr'.t = tr.t + 1)
            => ExogenousMonth ]_vars

\* a dashboard trajectory with growing revenue, an allocation and a hire, whose
\* third month still shows the people and margin it was started with
C19_Witness ==
    /\ caller = "dashboard"
    /\ params.rev_growth = 10
    /\ Len(traj) >= 3
    /\ traj[3].revenue = Mul(Mul(A0_arg, m0_arg), 121)
    /\ traj[3].revenue > traj[1].revenue
    /\ traj[3].people = A0_arg /\ A0_arg > 0
    /\ traj[3].margin_per_person = m0_arg
    /\ traj[3].BC > traj[1].BC
    /\ traj[3].employees > params.employees0

\* the population that the growth update of a month must leave
GrownPopulation ==
    LET churn        == Mul(params.churn_rate, A)
        acquisitions == Mul(params.acq_churn_ratio, churn)
                        + Mul(params.k_acq, Div(impact', costs' + Unit))
    IN  Max(0, A + acquisitions - churn)

\* C20: in organic mode, for m0 >= 0 and max_margin_growth >= 0, the margin
\* never decreases from one month to the next and its monthly growth factor is
\* at most 1 + max_margin_growth, and the population after a growth update is
\* max(0, A + acquisitions - churn) with
\* acquisitions = acq_churn_ratio*churn + k_acq*impact/(costs+1).
C20_GrowthBounds ==
    [][ (/\ pc = "loop" /\ t' = t + 1
         /\ params.m0 >= 0 /\ params.max_margin_growth >= 0) =>
            /\ m' >= m
            /\ m' * Unit <= m * (Unit + params.max_margin_growth)
            /\ (U' > 0 /\ pc' # "error") => A' = GrownPopulation
            /\ U' <= 0 => (A' = A /\ m' = m) ]_vars

\* a month whose margin growth was cut to the cap and whose population moved
C20_Witness ==
    /\ t = 1
    /\ U > 0
    /\ pc # "error"
    /\ params.km_margin = 100
    /\ m > params.m0
    /\ m = Mul(params.m0, Unit + params.max_margin_growth)
    /\ A # params.A0

\* a month in which acquisitions outweighed churn
C20_PopulationGrew == t = 1 /\ U > 0 /\ pc # "error" /\ A > params.A0

\* C21: across any run the employee count never decreases and rises by at most
\* 1 per month, cumulative impact never decreases (ratio fields in [0,1]), and
\* at the end hires_total = employees_end - employees0.
C21_StaffAndImpactMonotone ==
    [][ /\ employees' >= employees
        /\ employees' <= employees + 1
        /\ t' = t => employees' = employees
        /\ hires' - hires = employees' - employees
        /\ InRangeConfig => impact_cum' >= impact_cum
        /\ pc' = "done" =>
               summary'.hires_total = summary'.employees_end - params.employees0
      ]_vars

\* a finished in-range run that hired more than once and had impact
C21_Witness ==
    /\ pc = "done"
    /\ InRangeConfig
    /\ summary.hires_total >= 2
    /\ summary.employees_end = params.employees0 + summary.hires_total
    /\ summary.impact_cum_end > 0

\* C22: under the automatic policy, for any two coverage values c1 <= c2 and a
\* fixed cap >= 0.50, the dynamic share at c1 is <= the dynamic share at c2.
C22_ShareMonotoneInCoverage ==
    (pol_pc = "done" /\ p4_max_arg >= 50) =>
        \A c1 \in CovVals :
            c1 <= fs_cov_arg => p_dynamic_from_fs(c1, p4_max_arg) <= p_dyn_ret[1]

\* the part of C22 that holds: two coverage values of the same phase
C22_MonotoneInsidePhase ==
    (pol_pc = "done" /\ p4_max_arg >= 50) =>
        \A c1 \in { fs_cov_arg - 1, fs_cov_arg - Unit, 0, 300, 600, 1200 } :
            (/\ c1 \in CovVals /\ c1 <= fs_cov_arg
             /\ p_bounds_by_fs(c1, p4_max_arg).phase = bounds_ret.phase)
                => p_dynamic_from_fs(c1, p4_max_arg) <= p_dyn_ret[1]

\* the share just below coverage 6 is above the share at coverage 6
C22_ShareDropsAtSix ==
    /\ pol_pc = "done"
    /\ p4_max_arg = 70
    /\ fs_cov_arg = 600
    /\ p_dyn_ret = <<30>>
    /\ p_dynamic_from_fs(590, p4_max_arg) > 30

\* C23: in an override run (p_override = p in [0,1]) of any horizon >= 1 the
\* summary's p_eff_last equals p, for every configuration, including those in
\* which no month has positive utility.
C23_OverrideReported ==
    (pc = "done" /\ months >= 1 /\ ValidOverride) =>
        summary.p_eff_last = <<params.p_override>>

\* the part of C23 that holds: override runs with a month of positive utility
C23_OverrideReportedAfterGain ==
    (pc = "done" /\ months_u_pos >= 1 /\ ValidOverride) =>
        summary.p_eff_last = <<params.p_override>>

\* an override run that made a gain and reports the override
C23_GainReported ==
    /\ pc = "done" /\ months_u_pos >= 1
    /\ params.p_override = Unit /\ summary.p_eff_last = <<Unit>>

\* an override run of only loss months: the summary carries no share at all
C23_LossOnlyRun ==
    /\ pc = "done" /\ months >= 1 /\ months_u_pos = 0
    /\ ValidOverride /\ summary.p_eff_last = NaN

\* the running statistics after one more month, from the month's own U, share,
\* phase and impact amount
StatsFollowMonth ==
    LET c   == employees * params.cost_per_employee + params.other_fixed_costs
        cov == IF c > 0 THEN (FS * Unit) \div c ELSE Inf
        imp == IF U' > 0 THEN impact' ELSE 0
    IN  /\ months_u_pos' = months_u_pos + (IF U' > 0 THEN 1 ELSE 0)
        /\ u_sum' = u_sum + U'
        /\ first_impact_month' =
               IF first_impact_month = NaN /\ imp > 0
               THEN <<t + 1>> ELSE first_impact_month
        /\ last_p_eff' =
               IF U' > 0 THEN <<effective_p(params, cov, p_to_bc)>> ELSE last_p_eff
        /\ last_phase' =
               IF U' > 0 THEN <<p_bounds_by_fs(cov, params.p4_max).phase>>
               ELSE last_phase

\* C24: for horizon >= 1, pct_months_U_pos = (months with U > 0) / months,
\* avg_U = (sum of U over all months, loss months included) / months,
\* first_impact_month is the smallest t with impact > 0 (NaN if none), and
\* p_eff_last, phase_last are those of the last month with U > 0.
C24_SummaryStatistics ==
    [][ /\ t = 0 => /\ months_u_pos = 0 /\ u_sum = 0
                    /\ first_impact_month = NaN
                    /\ last_p_eff = NaN /\ last_phase = NaN
        /\ (pc = "loop" /\ t' = t + 1) => StatsFollowMonth
        /\ (pc' = "done" /\ months >= 1) =>
               /\ t = months
               /\ summary'.pct_months_U_pos = (months_u_pos * Unit) \div months
               /\ summary'.avg_U = u_sum \div months
               /\ summary'.first_impact_month = first_impact_month
               /\ summary'.p_eff_last = last_p_eff
               /\ summary'.phase_last = last_phase ]_vars

\* a finished run whose last month was a loss after a month of gain: the
\* summary still carries the share of the gain month
C24_Witness ==
    /\ pc = "done"
    /\ months >= 2
    /\ U <= 0
    /\ months_u_pos >= 1
    /\ summary.pct_months_U_pos > 0 /\ summary.pct_months_U_pos < Unit
    /\ summary.p_eff_last # NaN
    /\ summary.first_impact_month = <<1>>

\* C25: the interest rm * (BC + FS) only enters U: BC changes in a month only
\* by share*U and FS only by fsShare*(1-share)*U, both only when U > 0; in a
\* month with U <= 0 the interest of that month is credited to no balance.
C25_InterestOnlyThroughU ==
    [][ /\ t' = t => (BC' = BC /\ FS' = FS)
        /\ (pc = "loop" /\ t' = t + 1) =>
              /\ U' = Mul(A, m) + Mul(r_monthly(params.r_annual), BC + FS)
                       - (employees * params.cost_per_employee
                          + params.other_fixed_costs)
              /\ U' > 0 =>
                    /\ BC' = BC + Mul(last_p_eff'[1], U')
                    /\ FS' = FS + Mul(params.fs_pct_of_bpz,
                                      Mul(Unit - last_p_eff'[1], U'))
              /\ U' <= 0 => (BC' = BC /\ FS' = FS) ]_vars

\* a loss month that earned interest on the buffer and left both balances alone
C25_Witness ==
    /\ t >= 1
    /\ U <= 0
    /\ Mul(r_monthly(params.r_annual), B0 + FS0) > 0
    /\ U > Mul(params.A0, params.m0) - costs
    /\ BC = B0
    /\ FS = FS0

\* a gain month in which interest was part of the U that was split
C25_InterestInGain ==
    /\ t = 1 /\ U > Mul(params.A0, params.m0) - costs /\ U > 0
    /\ BC = B0 + Mul(last_p_eff[1], U)

\* C26: the summary returned by cached_run is computed from the same initial
\* population A0 and margin m0 that are passed to cached_run and used for the
\* trajectory: the simulate_pz run behind the summary starts from them.
C26_SummaryStartsFromArguments ==
    (caller = "dashboard" /\ tr_pc = "done" /\ t = 0) =>
        (A = A0_arg /\ m = m0_arg)

\* the trajectory of cached_run does start from the arguments
C26_TrajectoryStartsFromArguments ==
    (caller = "dashboard" /\ tr.t = 0) => (tr.A = A0_arg /\ tr.m = m0_arg)

\* cached_run was given 10 people; its trajectory shows 10, the run behind its
\* summary starts from the default 100
C26_DefaultsBehindSummary ==
    /\ caller = "dashboard" /\ tr_pc = "done" /\ t = 0
    /\ A0_arg = 10 * Unit /\ traj[1].people = 10 * Unit
    /\ A = 100 * Unit

\* C27: reaching a coverage threshold is permanent: once the recorded
\* post-allocation coverage of some month is >= a threshold (3, 6 or 12), the
\* recorded coverage of every later month is also >= that threshold.
C27_CrossingPermanent ==
    \A th \in {300, 600, 1200} :
        \A i \in 1..Len(traj) : \A j \in i..Len(traj) :
            row_coverage(traj[i]) >= th => row_coverage(traj[j]) >= th

\* what holds instead: from one month to the next the recorded coverage does
\* not fall unless the later month hired
C27_CoverageHoldsBetweenHires ==
    [][ (/\ tr_pc = "loop" /\ Len(traj) >= 1 /\ Len(traj') = Len(traj) + 1
         /\ tr'.employees = tr.employees)
            => row_coverage(traj'[Len(traj')]) >= row_coverage(traj[Len(traj)])
      ]_vars

\* two months after a hire, no further hire, and a recorded coverage that rose
C27_Witness ==
    /\ Len(traj) >= 3
    /\ traj[1].employees > params.employees0
    /\ traj[3].employees = traj[2].employees
    /\ row_coverage(traj[3]) > row_coverage(traj[2])
    /\ row_coverage(traj[3]) # Inf

\* coverage 12 was reached in month 2 and lost to a hire in month 3
C27_CrossingLost ==
    /\ Len(traj) >= 3
    /\ row_coverage(traj[2]) >= 1200
    /\ row_coverage(traj[3]) < 1200
    /\ traj[3].employees = traj[2].employees + 1

\* simulate_pz as a function of the horizon alone: the loop state that a run
\* of n months with the present p_to_bc, params, B0 and FS0 ends with
\* (pz_model.py:158-254); raised is TRUE when that run ends in an exception.
\* One iteration, on the loop state s, in month now:
simulate_pz_month(s, now) ==
    LET c     == s.employees * params.cost_per_employee + params.other_fixed_costs
        u     == Mul(s.A, s.m) + Mul(r_monthly(params.r_annual), s.BC + s.FS) - c
        p_eff == effective_p(params, coverage(s.FS, c), p_to_bc)
        pool  == Mul(Unit - p_eff, u)
        fs_in == Mul(params.fs_pct_of_bpz, pool)
        rem   == Mul(Unit - params.fs_pct_of_bpz, pool)
        imp   == Mul(params.impact_pct_of_bpz_rem, rem)
        rd    == Mul(params.rd_pct_of_internal,
                     Mul(params.internal_pct_of_bpz_rem, rem))
        den   == c + Unit
        churn == Mul(params.churn_rate, s.A)
        acq   == Mul(params.acq_churn_ratio, churn)
                 + Mul(params.k_acq, Div(imp, den))
        g_m   == Min(params.max_margin_growth,
                     Max(0, Mul(params.km_margin, Div(imp, den))
                            + Mul(params.krd_margin, Div(rd, den))))
        hire  == /\ (now - s.last_hire_month) >= params.hire_cooldown_months
                 /\ s.FS + fs_in >= Mul(params.hire_trigger_buffer,
                                       fs_ratio_for_employees(s.employees) * c)
        paid  == [s EXCEPT !.BC = s.BC + Mul(p_eff, u),
                           !.FS = s.FS + fs_in,
                           !.impact_cum = s.impact_cum + imp]
    IN  IF s.raised \/ u <= 0 THEN s
        ELSE IF den = 0 THEN [paid EXCEPT !.raised = TRUE]
        ELSE [paid EXCEPT !.A = Max(0, s.A + acq - churn),
                          !.m = Mul(s.m, Unit + g_m),
                          !.employees = IF hire THEN s.employees + 1 ELSE s.employees,
                          !.hires = IF hire THEN s.hires + 1 ELSE s.hires,
                          !.last_hire_month = IF hire THEN now ELSE s.last_hire_month]

RECURSIVE simulate_pz_after(_)
simulate_pz_after(n) ==
    IF n = 0
    THEN [A |-> params.A0, m |-> params.m0, employees |-> params.employees0,
          BC |-> B0, FS |-> FS0, impact_cum |-> 0, hires |-> 0,
          last_hire_month |-> -10000, raised |-> FALSE]
    ELSE simulate_pz_month(simulate_pz_after(n - 1), n)

\* the loop state of the run in progress
LoopState ==
    [A |-> A, m |-> m, employees |-> employees, BC |-> BC, FS |-> FS,
     impact_cum |-> impact_cum, hires |-> hires,
     last_hire_month |-> last_hire_month, raised |-> pc = "error"]

\* C28: for all horizons n <= n', the state (A, m, employees, BC, FS,
\* cumulative impact, hires) after n months of an n'-month run equals the end
\* state of an n-month run; the summaries of a horizon sweep are snapshots of
\* one trajectory.
C28_HorizonPrefix ==
    /\ LoopState = simulate_pz_after(t)
    /\ pc = "done" =>
          LET e == simulate_pz_after(months)
          IN  /\ summary.A_end = e.A /\ summary.m_end = e.m
              /\ summary.employees_end = e.employees
              /\ summary.BC_end = e.BC /\ summary.FS_end = e.FS
              /\ summary.impact_cum_end = e.impact_cum
              /\ summary.hires_total = e.hires

\* two months into a longer run, after a hire, growth and an allocation
C28_Witness ==
    /\ pc = "loop"
    /\ t = 2
    /\ months >= 3
    /\ hires >= 1
    /\ A # params.A0
    /\ FS > FS0
    /\ simulate_pz_after(2).FS = FS
    /\ simulate_pz_after(1).FS < FS

\* C29: in simulate_phase1, for every alpha in [0,1]: a month with u <= 0
\* leaves bond capital and cumulative impact unchanged; a month with u > 0
\* adds alpha*u to the bond capital and (1-alpha)*u to the cumulative impact,
\* so reinvest + impact = u (to the hundredth lost in rounding the two
\* products down); neither ever decreases; avg_u_positive is the mean of u
\* over the positive months only, 0 when there is none.
C29_Phase1Split ==
    [][ /\ bond_capital' >= bond_capital
        /\ p1_impact_cum' >= p1_impact_cum
        /\ p1_t = 0 => (u_positive_sum = 0 /\ months_positive_u = 0)
        /\ (p1_t' = p1_t + 1 /\ p1_u' <= 0) =>
              /\ bond_capital' = bond_capital
              /\ p1_impact_cum' = p1_impact_cum
              /\ u_positive_sum' = u_positive_sum
              /\ months_positive_u' = months_positive_u
        /\ (p1_t' = p1_t + 1 /\ p1_u' > 0) =>
              /\ bond_capital' - bond_capital = Mul(phase1_args.alpha, p1_u')
              /\ p1_impact_cum' - p1_impact_cum
                     = Mul(Unit - phase1_args.alpha, p1_u')
              /\ reinvest' + p1_impact' <= p1_u'
              /\ reinvest' + p1_impact' >= p1_u' - 1
              /\ u_positive_sum' = u_positive_sum + p1_u'
              /\ months_positive_u' = months_positive_u + 1
        /\ p1_pc' = "done" =>
              phase1_ret'.avg_u_positive =
                  IF months_positive_u > 0
                  THEN u_positive_sum \div months_positive_u ELSE 0
      ]_vars

\* a finished run of gain months whose utility grew with the interest on the
\* reinvested capital
C29_Witness ==
    /\ p1_pc = "done"
    /\ phase1_args.alpha = 90
    /\ phase1_args.months >= 2
    /\ months_positive_u = phase1_args.months
    /\ bond_capital > phase1_args.B0
    /\ p1_impact_cum > 0
    /\ p1_u > phase1_args.A0 * phase1_args.margin_per_person - phase1_args.C_base
    /\ phase1_ret.avg_u_positive > 0
    /\ phase1_ret.avg_u_positive * months_positive_u <= u_positive_sum

\* a finished run without any positive month reports avg_u_positive = 0
C29_NoPositiveMonth ==
    /\ p1_pc = "done" /\ phase1_args.months >= 1 /\ months_positive_u = 0
    /\ phase1_ret.avg_u_positive = 0 /\ phase1_ret.avg_u < 0

=============================================================================
